---- MODULE Spec2Model ----
(***************************************************************************)
(* A model of the vision pipeline of the object_detection repository:      *)
(*   blue_detector.py     detect_blue_object / detect_white_object         *)
(*   can_toolbox.py       send_message and its test loop main()            *)
(*   main.py, test.py     the camera frame loops and the video_feed thread *)
(*   distance_utils.py    the import and estimate_blue_distance            *)
(*   calibrate_camera.py  main(), gen_frames() and capture()               *)
(*                                                                         *)
(* Python values are modelled as follows.                                  *)
(*   None            the empty tuple << >>                                 *)
(*   a tuple         a TLA+ tuple of the same length                       *)
(*   a float         an exact rational <<num, den>> with den > 0           *)
(*   an image        a record [W, H, blobs, drawn]: its size, the          *)
(*                   connected components of its cleaned colour masks and  *)
(*                   the drawing calls applied to it                       *)
(*   an exception    the name of its class, "none" when nothing is raised  *)
(* In distance_utils.py and calibrate_camera.py, where the type of a value *)
(* matters, a value is a record [t, n, d] (see Val below).                 *)
(***************************************************************************)
EXTENDS Integers, Sequences, FiniteSets, TLC

VARIABLES
    program,      \* what runs: "detect", "tilt", "main", "test", "can_toolbox",
                  \* "distance_utils" or "calibrate_camera"
    pc,           \* position of the running program
    frame,        \* the frame handed to the detector (bgr_img / frame)
    annotated,    \* first value returned by the detector
    info,         \* second value returned by the detector (None or the 9-tuple)
    slice,        \* a box width w with its submask = mask[y:y+h, x:x+w]
    tilt_result,  \* [h_left, h_right, angle_rel] computed from slice
    exc,          \* the exception that is propagating, "none" if there is none
    platform,     \* PLATFORM: "laptop" or "pi"
    camera,       \* cap / picam: "closed", "open" or "released"
    released,     \* number of cap.release() / picam.stop() calls
    exit,         \* why the frame loop was left, "none" while it runs
    frame_count,  \* frame_count of main()
    latest_jpeg,  \* test.py: the global JPEG buffer read by the Flask stream
    bus,          \* the messages the CAN bus has accepted, oldest first
    calls,        \* the send_message calls of the current loop iteration
    call,         \* the send_message call in progress or last completed
    test_index,   \* can_toolbox.main: index of the next entry of tests
    gen_pc,       \* test.py: position of the video_feed generator thread
    emitted,      \* test.py: the JPEGs the video_feed generator has yielded
    stored,       \* test.py: the values main() has assigned to latest_jpeg
    calib_file,   \* the file distance_calibration.json
    REF_DIST_M,   \* distance_utils: global, None before the import
    REF_H_PX,     \* distance_utils: global, None before the import
    estimates,    \* distance_utils: the calls of estimate_blue_distance so far
    ref_distance_m, \* calibrate_camera: global, the distance typed at startup
    latest_h,     \* calibrate_camera: global, height of the white object or None
    streamed,     \* calibrate_camera: number of frames gen_frames has handled
    capture_pc,   \* calibrate_camera: position of the capture() request thread
    calib_data,   \* calibrate_camera: local calib_data of capture()
    page,         \* calibrate_camera: title of the page capture() returned last
    captures      \* calibrate_camera: number of capture() requests so far

detvars == <<frame, annotated, info, slice, tilt_result>>

loopvars == <<platform, camera, released, exit, frame_count, latest_jpeg>>

busvars == <<bus, calls, call, test_index>>

feedvars == <<gen_pc, emitted, stored>>

distvars == <<calib_file, REF_DIST_M, REF_H_PX, estimates>>

toolvars == <<ref_distance_m, latest_h, streamed, capture_pc, calib_data, page, captures>>

vars == <<program, pc, exc, detvars, loopvars, busvars, feedvars, distvars, toolvars>>

---------------------------------------------------------------------------
(* Bounds of the model                                                     *)

\* at most this many connected components in one frame
MaxContours == 2

\* a frame loop is followed for this many frames
MaxFrames == 2

\* can_toolbox.main is followed for this many send_message calls
MaxSends == 5

\* test.py: the video_feed generator is followed for this many yields
MaxEmitted == 2

\* widths 0..MaxTiltWidth and heights 0..MaxTiltRows of the slices whose
\* tilt is computed on arbitrary masks
MaxTiltWidth == 5

MaxTiltRows == 4

\* estimate_blue_distance is called this many times after the import
MaxEstimates == 2

\* pixel heights -1..MaxHeightPx are handed to estimate_blue_distance
MaxHeightPx == 4

\* calibrate_camera: gen_frames is followed for this many frames
MaxStreamFrames == 2

\* calibrate_camera: this many capture() requests are made
MaxCaptures == 2

---------------------------------------------------------------------------
(* Program constants                                                       *)

\* blue_detector.py:49 and :201, "if cv2.contourArea(c) < 500"
MIN_AREA == 500

\* blue_detector.py:35 and :187, side of the square structuring element
KERNEL == 5

None == << >>

---------------------------------------------------------------------------
(* Exact rationals standing for Python floats                              *)

Abs(n) == IF n < 0 THEN -n ELSE n

\* <<n, d>> with the sign carried by the numerator
Rat(n, d) == IF d < 0 THEN <<-n, -d>> ELSE <<n, d>>

RatZero == <<0, 1>>

RatAdd(a, b) == Rat(a[1] * b[2] + b[1] * a[2], a[2] * b[2])

RatSub(a, b) == Rat(a[1] * b[2] - b[1] * a[2], a[2] * b[2])

\* a / b, b # 0
RatDiv(a, b) == Rat(a[1] * b[2], a[2] * b[1])

RatEq(a, b) == a[1] * b[2] = b[1] * a[2]

RatLess(a, b) == a[1] * b[2] < b[1] * a[2]

RatLeq(a, b) == a[1] * b[2] <= b[1] * a[2]

RatAbs(a) == <<Abs(a[1]), a[2]>>

RatMul(a, b) == Rat(a[1] * b[1], a[2] * b[2])

---------------------------------------------------------------------------
(* Python and JSON values whose type matters (distance_utils.py and        *)
(* calibrate_camera.py): [t, n, d] is a value of type t; an int has d = 1, *)
(* a float is the rational n/d or, with t = "nan", not a number.           *)

Val(t, n, d) == [t |-> t, n |-> n, d |-> d]

PyNone == Val("NoneType", 0, 1)

PyInt(n) == Val("int", n, 1)

PyFloat(n, d) == Val("float", n, d)

PyNaN == Val("nan", 0, 1)

PyStr == Val("str", 0, 1)

IsNumber(v) == v.t \in {"int", "float"}

AsRat(v) == <<v.n, v.d>>

\* the file distance_calibration.json: absent, not JSON text, or a JSON
\* object given as a function from its keys to their values
NoFile == [exists |-> FALSE, parses |-> FALSE, data |-> << >>]

NotJson == [exists |-> TRUE, parses |-> FALSE, data |-> << >>]

JsonFile(data) == [exists |-> TRUE, parses |-> TRUE, data |-> data]

---------------------------------------------------------------------------
(* OpenCV / NumPy primitives, on images whose cleaned masks are unions of  *)
(* solid axis-aligned rectangles.  A blob is [color, x, y, w, h]: the      *)
(* pixels (x..x+w-1) X (y..y+h-1) are foreground in the mask of `color`.   *)

\* cv2.findContours(mask, RETR_EXTERNAL, ...): the components of the mask of
\* one colour, in scan order
findContours(img, color) == SelectSeq(img.blobs, LAMBDA b : b.color = color)

\* cv2.contourArea(c): the area of the contour polygon (Green's formula).
\* The contour of a solid w x h pixel rectangle runs through the centres of
\* its border pixels, so it encloses (w-1) x (h-1), not the w*h pixels.
contourArea(c) == (c.w - 1) * (c.h - 1)

\* number of foreground pixels of the component
pixelArea(c) == c.w * c.h

\* cv2.boundingRect(c)
boundingRect(c) == <<c.x, c.y, c.w, c.h>>

\* max(contours, key=cv2.contourArea): Python's max returns the first of the
\* maximal elements
MaxByLast(contours) ==
    LET n == Len(contours)
        best == CHOOSE i \in 1..n :
                    /\ \A j \in 1..n : contourArea(contours[j]) <= contourArea(contours[i])
                    /\ \A j \in (i+1)..n : contourArea(contours[j]) < contourArea(contours[i])
    IN  contours[best]

MaxByArea(contours) ==
    LET n == Len(contours)
        best == CHOOSE i \in 1..n :
                    /\ \A j \in 1..n : contourArea(contours[j]) <= contourArea(contours[i])
                    /\ \A j \in 1..(i-1) : contourArea(contours[j]) < contourArea(contours[i])
    IN  contours[best]

\* the rows of column col of mask[y:y+h, x:x+w], as indices into the slice
SubmaskColumn(img, color, x, y, h, col) ==
    UNION { IF b.color = color /\ b.x <= x + col /\ x + col < b.x + b.w
            THEN { r \in 0..(h-1) : b.y <= y + r /\ y + r < b.y + b.h }
            ELSE {}
          : b \in { img.blobs[i] : i \in 1..Len(img.blobs) } }

\* submask = mask[y:y + h, x:x + w]
Submask(img, color, x, y, w, h) ==
    [col \in 0..(w-1) |-> SubmaskColumn(img, color, x, y, h, col)]

SetMax(S) == CHOOSE m \in S : \A r \in S : r <= m

SetMin(S) == CHOOSE m \in S : \A r \in S : m <= r

---------------------------------------------------------------------------
(* Tilt ("angle_rel") from the column height profile                       *)

\* ys = np.where(column > 0)[0]; ys.max() - ys.min() if len(ys) > 0 else 0
ColumnHeight(column) ==
    IF column = {} THEN 0 ELSE SetMax(column) - SetMin(column)

col_heights(w, submask) == [col \in 0..(w-1) |-> ColumnHeight(submask[col])]

\* col_heights[: w // 4], or the whole profile when w < 4
left_region(w) == IF w >= 4 THEN 0..((w \div 4) - 1) ELSE 0..(w-1)

\* col_heights[3 * w // 4 :], or the whole profile when w < 4
RightRegionNoGuard(w) == ((3 * w) \div 4)..(w-1)

right_region(w) == IF w >= 4 THEN ((3 * w) \div 4)..(w-1) ELSE 0..(w-1)

\* region[region > 0], as the set of its column indices
NonZeroKeepsAll(heights, region) == region

nonzero(heights, region) == { col \in region : heights[col] > 0 }

RECURSIVE SumOver(_, _)
SumOver(heights, cols) ==
    IF cols = {} THEN 0
    ELSE LET col == CHOOSE c \in cols : TRUE
         IN  heights[col] + SumOver(heights, cols \ {col})

\* float(region_nonzero.mean())
mean(heights, cols) == Rat(SumOver(heights, cols), Cardinality(cols))

\* lines 97-111 (blue) and 251-263 (white): [h_left, h_right, angle_rel]
angle_rel_of(w, submask) ==
    LET heights       == col_heights(w, submask)
        left_nonzero  == nonzero(heights, left_region(w))
        right_nonzero == nonzero(heights, right_region(w))
    IN  IF left_nonzero = {} \/ right_nonzero = {}
        THEN [h_left |-> RatZero, h_right |-> RatZero, angle_rel |-> RatZero]
        ELSE LET h_left  == mean(heights, left_nonzero)
                 h_right == mean(heights, right_nonzero)
                 avg_h   == RatDiv(RatAdd(h_left, h_right), <<2, 1>>)
             IN  [h_left |-> h_left, h_right |-> h_right,
                  angle_rel |-> IF RatLess(RatZero, avg_h)
                                THEN RatDiv(RatSub(h_left, h_right), avg_h)
                                ELSE RatZero]

---------------------------------------------------------------------------
(* blue_detector.py: detect_blue_object and detect_white_object            *)

\* "if cv2.contourArea(c) < 500: return bgr_img, None"
TooSmallInclusive(c) == contourArea(c) <= MIN_AREA

too_small(c) == contourArea(c) < MIN_AREA

\* cx = x + w // 2 (and cy = y + h // 2)
BoxFarEdge(x, w) == x + w

box_center(x, w) == x + w \div 2

\* frame_cx = img_w // 2; err_x_pix = cx - frame_cx; ex_rel = err_x_pix / frame_cx
\* (true division of two ints; the caller has excluded frame_size // 2 = 0)
RelErrorNoOffset(c, frame_size) == Rat(c, frame_size \div 2)

rel_error(c, frame_size) == Rat(c - frame_size \div 2, frame_size \div 2)

\* arrow_length = int(w * 0.2 * abs(angle_rel))
ArrowLengthUnscaled(w, angle_rel) == (w * Abs(angle_rel[1])) \div angle_rel[2]

arrow_length(w, angle_rel) == (w * Abs(angle_rel[1])) \div (5 * angle_rel[2])

\* bgr_img.copy() followed by the drawing calls of steps 7, 8 and (blue
\* only) 11; the input image itself is left as it is
Annotate(bgr_img, overlays, x, y, w, h, cx, cy, tilt) ==
    LET base   == <<  <<"rectangle", x, y, x + w, y + h>>, <<"circle", cx, cy>>  >>
        guides == IF w >= 4
                  THEN <<  <<"line", x + w \div 4, y, y + h>>,
                           <<"line", x + (3 * w) \div 4, y, y + h>>  >>
                  ELSE << >>
        text   == <<  <<"putText", x, IF y - 10 > 0 THEN y - 10 ELSE 0>>  >>
        len    == arrow_length(w, tilt.angle_rel)
        arrow  == IF len > 0
                  THEN <<  <<"arrowedLine", cx, cy,
                             IF tilt.angle_rel[1] > 0 THEN cx - len ELSE cx + len>>  >>
                  ELSE << >>
    IN  [bgr_img EXCEPT !.drawn =
            @ \o base \o (IF overlays THEN guides \o text \o arrow ELSE << >>)]

\* annotated = bgr_img.copy(): annotated is a new array, so bgr_img after
\* the drawing calls on annotated is what it was before them
DrawnInPlace(bgr_img, drawn_on) == drawn_on

input_after(bgr_img, drawn_on) == bgr_img

\* The body shared by the two detectors, which differ in the colour range
\* of the mask and in the debug overlays.  Result: [raised, annotated, info]
\* and bgr_img, the caller's image as the call leaves it.
detect_object(bgr_img, color, overlays) ==
    IF bgr_img.W = 0 \/ bgr_img.H = 0
    THEN \* cv2.cvtColor rejects an empty image (assertion !_src.empty())
         [raised |-> "cv2.error", annotated |-> None, info |-> None,
          bgr_img |-> bgr_img]
    ELSE
    LET contours == findContours(bgr_img, color)
    IN  IF contours = << >>
        THEN [raised |-> "none", annotated |-> bgr_img, info |-> None,
                  bgr_img |-> bgr_img]
        ELSE
        LET c == MaxByArea(contours)
        IN  IF too_small(c)
            THEN [raised |-> "none", annotated |-> bgr_img, info |-> None,
                  bgr_img |-> bgr_img]
            ELSE
            LET rect == boundingRect(c)
                x == rect[1]
                y == rect[2]
                w == rect[3]
                h == rect[4]
                cx == box_center(x, w)
                cy == box_center(y, h)
                img_w == bgr_img.W
                img_h == bgr_img.H
            IN  IF img_w \div 2 = 0 \/ img_h \div 2 = 0
                THEN [raised |-> "ZeroDivisionError", annotated |-> None, info |-> None,
                      bgr_img |-> input_after(bgr_img,
                          [bgr_img EXCEPT !.drawn = @ \o
                              << <<"rectangle", x, y, x + w, y + h>>, <<"circle", cx, cy>> >>])]
                ELSE
                LET ex_rel == rel_error(cx, img_w)
                    ey_rel == rel_error(cy, img_h)
                    tilt   == angle_rel_of(w, Submask(bgr_img, color, x, y, w, h))
                    drawn_on == Annotate(bgr_img, overlays, x, y, w, h, cx, cy, tilt)
                IN  [raised    |-> "none",
                     annotated |-> drawn_on,
                     info      |-> <<x, y, w, h, cx, cy, ex_rel, ey_rel, tilt.angle_rel>>,
                     bgr_img   |-> input_after(bgr_img, drawn_on)]

detect_blue_object(bgr_img) == detect_object(bgr_img, "blue", TRUE)

detect_white_object(bgr_img) == detect_object(bgr_img, "white", FALSE)

---------------------------------------------------------------------------
(* Input frames                                                            *)

Colors == {"blue", "white"}

\* frame sizes: the 640 x 480 of get_config, an odd-sized frame, a single
\* pixel and the empty image
FrameSizes == { <<640, 480>>, <<131, 127>>, <<1, 1>>, <<0, 0>> }

\* widths and heights of the rectangular components
BoxShapes == { <<21, 26>>, <<21, 25>>, <<55, 11>>, <<5, 126>>, <<5, 5>>, <<1, 1>> }

\* left/top edge, centred, right/bottom edge
Positions(size, extent) == <<0, size \div 2 - extent \div 2, size - extent>>

\* The rectangles admitted as components of a mask cleaned by the 5 x 5
\* opening: those the structuring element fits into, and those spanning a
\* narrower image (its border counts as foreground for the erosion).
SurvivesOpening(W, H, w, h) ==
    /\ w <= W /\ h <= H
    /\ w >= KERNEL \/ w = W
    /\ h >= KERNEL \/ h = H

CandidateBlobs(W, H) ==
    { [color |-> col, x |-> Positions(W, s[1])[p], y |-> Positions(H, s[2])[p],
       w |-> s[1], h |-> s[2]] :
        col \in Colors, p \in 1..3,
        s \in { t \in BoxShapes : SurvivesOpening(W, H, t[1], t[2]) } }

\* number of background pixels between two boxes, along the axis where
\* they are furthest apart (negative when they overlap)
Gap(a, b) ==
    LET gx == IF a.x <= b.x THEN b.x - (a.x + a.w) ELSE a.x - (b.x + b.w)
        gy == IF a.y <= b.y THEN b.y - (a.y + a.h) ELSE a.y - (b.y + b.h)
    IN  IF gx >= gy THEN gx ELSE gy

\* Two components of one mask stay apart under the 5 x 5 closing; two
\* components of different masks only share no pixel.
Separate(a, b) == IF a.color = b.color THEN Gap(a, b) >= KERNEL ELSE Gap(a, b) >= 0

\* the components of the cleaned masks of one image, in scan order
Separated(bs) == \A i, j \in DOMAIN bs : i < j => Separate(bs[i], bs[j])

\* an image as the camera delivers it: nothing drawn on it yet
Image(W, H, bs) == [W |-> W, H |-> H, blobs |-> bs, drawn |-> << >>]

---------------------------------------------------------------------------
(* One call of a detector on one frame                                     *)

\* the state of the parts that take no part in the running program
IdleLoop ==
    /\ platform = "pi"
    /\ camera = "closed"
    /\ released = 0
    /\ exit = "none"
    /\ frame_count = 0
    /\ latest_jpeg = None

IdleTilt ==
    /\ slice = None
    /\ tilt_result = None

IdleBus ==
    /\ bus = << >>
    /\ calls = << >>
    /\ call = None
    /\ test_index = 1

IdleFeed ==
    /\ gen_pc = "idle"
    /\ emitted = << >>
    /\ stored = << >>

IdleDistance ==
    /\ calib_file = NoFile
    /\ REF_DIST_M = PyNone
    /\ REF_H_PX = PyNone
    /\ estimates = << >>

IdleTool ==
    /\ ref_distance_m = PyNone
    /\ latest_h = PyNone
    /\ streamed = 0
    /\ capture_pc = "idle"
    /\ calib_data = None
    /\ page = "none"
    /\ captures = 0

InitDetect ==
    /\ program = "detect"
    /\ pc = "call"
    /\ \E s \in FrameSizes : \E n \in 0..MaxContours :
          \E bs \in [1..n -> CandidateBlobs(s[1], s[2])] :
              Separated(bs) /\ frame = Image(s[1], s[2], bs)
    /\ annotated = None
    /\ info = None
    /\ exc = "none"
    /\ IdleTilt
    /\ IdleLoop
    /\ IdleBus
    /\ IdleFeed
    /\ IdleDistance
    /\ IdleTool

Return(r, at) ==
    /\ pc' = at
    /\ exc' = r.raised
    /\ annotated' = r.annotated
    /\ info' = r.info
    /\ frame' = r.bgr_img
    /\ UNCHANGED <<feedvars, distvars, toolvars, program, slice, tilt_result, loopvars, busvars>>

CallBlue ==
    /\ program = "detect" /\ pc = "call"
    /\ Return(detect_blue_object(frame), "blue")

CallWhite ==
    /\ program = "detect" /\ pc = "call"
    /\ Return(detect_white_object(frame), "white")

NextDetect == CallBlue \/ CallWhite

SpecDetect == InitDetect /\ [][NextDetect]_vars

---------------------------------------------------------------------------
(* The tilt computation on the submask of an arbitrary component           *)

\* the foreground rows of one column of a slice of h rows: a run of
\* pixels standing on the bottom row, of any length from 0 to h, or the top
\* and the bottom pixel alone
ColumnPatterns(h) ==
    { (h - n)..(h - 1) : n \in 0..h } \cup (IF h >= 1 THEN { {0, h - 1} } ELSE {})

InitTilt ==
    /\ program = "tilt"
    /\ pc = "slice"
    /\ \E w \in 0..MaxTiltWidth : \E m \in [0..(w-1) -> ColumnPatterns(MaxTiltRows)] :
          slice = [w |-> w, h |-> MaxTiltRows, submask |-> m]
    /\ tilt_result = None
    /\ frame = None /\ annotated = None /\ info = None
    /\ exc = "none"
    /\ IdleLoop
    /\ IdleBus
    /\ IdleFeed
    /\ IdleDistance
    /\ IdleTool

\* step 10 of the detectors: col_heights from submask, then angle_rel, and
\* the arrow_length of step 11
ComputeTilt ==
    /\ program = "tilt" /\ pc = "slice"
    /\ LET tilt == angle_rel_of(slice.w, slice.submask)
       IN  tilt_result' = [h_left |-> tilt.h_left, h_right |-> tilt.h_right,
                           angle_rel |-> tilt.angle_rel,
                           arrow_length |-> arrow_length(slice.w, tilt.angle_rel)]
    /\ pc' = "tilt"
    /\ UNCHANGED <<feedvars, distvars, toolvars, program, exc, frame, annotated, info, slice, loopvars, busvars>>

NextTilt == ComputeTilt

SpecTilt == InitTilt /\ [][NextTilt]_vars

---------------------------------------------------------------------------
(* can_toolbox.py: send_message                                            *)

\* One call of send_message; ok tells whether bus.send(msg) succeeds or
\* raises can.CanError.  The payload is struct.pack("<ff", value_1, value_2).
\* Result: the messages put on the bus, the number of bus.send attempts,
\* the line printed and the exception leaving the function.
SendMessageReraise(frame_ID, value_1, value_2, ok) ==
    LET msg == [arbitration_id |-> frame_ID, data |-> <<"<ff", value_1, value_2>>]
    IN  [sent     |-> IF ok THEN <<msg>> ELSE << >>,
         attempts |-> 1,
         logged   |-> IF ok THEN "Sent" ELSE "Failed to send message",
         raised   |-> IF ok THEN "none" ELSE "CanError"]

send_message(frame_ID, value_1, value_2, ok) ==
    LET msg == [arbitration_id |-> frame_ID, data |-> <<"<ff", value_1, value_2>>]
    IN  [sent     |-> IF ok THEN <<msg>> ELSE << >>,
         attempts |-> 1,
         logged   |-> IF ok THEN "Sent" ELSE "Failed to send message",
         raised   |-> "none"]

\* can_toolbox.main: tests, with 0x100 = 256 and 0x101 = 257
tests ==
    << <<256, <<100, 1>>, <<200, 1>> >>,
       <<256, <<-100, 1>>, <<-200, 1>> >>,
       <<257, <<0, 1>>, <<0, 1>> >>,
       <<257, <<32767, 100000>>, <<-32768, 100000>> >> >>

---------------------------------------------------------------------------
(* main.py and test.py: get_config and the frame loop of main()            *)

\* get_config(PLATFORM); the frame size plays no part in the loop
get_config(prog, plat) ==
    IF plat = "laptop"
    THEN [backend |-> "opencv", show_window |-> TRUE]
    ELSE [backend |-> "picamera2", show_window |-> FALSE]

\* the frames the camera delivers: 640 x 480, empty or with one component
\* at the top left: a blue one of contour area 500, a blue one of contour
\* area 480 or a white one of contour area 500
LoopFrames ==
    { Image(640, 480, bs) :
        bs \in { << >> } \cup
               { <<b>> : b \in { c \in CandidateBlobs(640, 480) :
                                   /\ c.x = 0 /\ c.w = 21
                                   /\ c.color = "blue" \/ c.h = 26 } } }

\* number of names on the left of "... = info":
\* main.py:116 unpacks 9 values, test.py:179 unpacks 10
UnpackTargets(prog) == IF prog = "test" THEN 10 ELSE 9

\* "if info is not None: <unpack> ... else: print(...)": the exception
\* raised and the position reached.  A tuple unpacked into a different
\* number of names raises ValueError.
HandleUnpacksNone(prog, inf) ==
    IF inf = None \/ Len(inf) # UnpackTargets(prog)
    THEN [raised |-> IF inf = None THEN "TypeError" ELSE "ValueError", next |-> "finally"]
    ELSE [raised |-> "none", next |-> IF prog = "test" THEN "t180" ELSE "show"]

handle(prog, inf) ==
    IF inf = None
    THEN [raised |-> "none", next |-> IF prog = "test" THEN "stream" ELSE "show"]
    ELSE IF Len(inf) # UnpackTargets(prog)
         THEN [raised |-> "ValueError", next |-> "finally"]
         ELSE [raised |-> "none", next |-> IF prog = "test" THEN "t180" ELSE "show"]

\* positions inside "try:" of main()
TryPcs == {"grab", "detect", "handle", "t180", "t181", "send_message",
           "stream", "show", "count"}

\* the send_message call made at a position, and where it returns to:
\* test.py:180, test.py:181 and can_toolbox.py:75
CallSites == {"t180", "t181", "c75"}

CallAt(site) ==
    CASE site = "t180" ->
            [frame_ID |-> 256, value_1 |-> info[7], value_2 |-> info[8], ret |-> "t181"]
      [] site = "t181" ->
            [frame_ID |-> 257, value_1 |-> info[9], value_2 |-> info[10], ret |-> "stream"]
      [] site = "c75" ->
            [frame_ID |-> tests[test_index][1], value_1 |-> tests[test_index][2],
             value_2 |-> tests[test_index][3], ret |-> "c76"]

InitLoop ==
    /\ program \in {"main", "test", "can_toolbox"}
    /\ platform \in {"laptop", "pi"}
    /\ program = "can_toolbox" => platform = "pi"
    /\ pc = IF program = "can_toolbox" THEN "c75" ELSE "start"
    /\ frame = None /\ annotated = None /\ info = None
    /\ IdleTilt
    /\ exc = "none"
    /\ camera = "closed" /\ released = 0 /\ exit = "none"
    /\ frame_count = 0 /\ latest_jpeg = None
    /\ IdleBus
    /\ IdleFeed
    /\ IdleDistance
    /\ IdleTool

\* main(): "1) Initialize camera"; without a camera main() returns
OpenCamera ==
    /\ program \in {"main", "test"} /\ pc = "start"
    /\ \E opened \in BOOLEAN :
          IF opened
          THEN camera' = "open" /\ pc' = "grab" /\ exit' = exit
          ELSE camera' = camera /\ pc' = "returned" /\ exit' = "no_camera"
    /\ UNCHANGED <<feedvars, distvars, toolvars, program, exc, detvars, released, platform, frame_count,
                   latest_jpeg, busvars>>

\* "Grab frame": cap.read() may report a failure on the laptop backend,
\* picam.capture_array() may raise on the Pi backend
Grab ==
    /\ program \in {"main", "test"} /\ pc = "grab"
    /\ frame_count < MaxFrames
    /\ \/ /\ get_config(program, platform).backend = "opencv"
          /\ exit' = "grab_failed" /\ pc' = "finally"
          /\ UNCHANGED <<frame, calls, exc>>
       \/ /\ get_config(program, platform).backend = "picamera2"
          /\ exc' = "RuntimeError" /\ pc' = "finally"
          /\ UNCHANGED <<frame, calls, exit>>
       \/ /\ \E f \in LoopFrames : frame' = f
          /\ calls' = << >>
          /\ pc' = "detect"
          /\ UNCHANGED <<exit, exc>>
    /\ UNCHANGED <<feedvars, distvars, toolvars, program, annotated, info, slice, tilt_result, platform, camera,
                   released, frame_count, latest_jpeg, bus, call, test_index>>

\* annotated, info = detect_blue_object(frame)
Detect ==
    /\ program \in {"main", "test"} /\ pc = "detect"
    /\ LET r == detect_blue_object(frame)
       IN  /\ frame' = r.bgr_img
           /\ IF r.raised # "none"
              THEN exc' = r.raised /\ pc' = "finally" /\ UNCHANGED <<annotated, info>>
              ELSE exc' = exc /\ pc' = "handle"
                   /\ annotated' = r.annotated /\ info' = r.info
    /\ UNCHANGED <<feedvars, distvars, toolvars, program, slice, tilt_result, loopvars, busvars>>

\* "if info is not None: x, y, ... = info" / "else: print(...)"
Handle ==
    /\ program \in {"main", "test"} /\ pc = "handle"
    /\ LET r == handle(program, info)
       IN  exc' = r.raised /\ pc' = r.next
    /\ UNCHANGED <<feedvars, distvars, toolvars, program, detvars, loopvars, busvars>>

\* a call of send_message(frame_ID, value_1, value_2)
CallSend ==
    /\ pc \in CallSites
    /\ Len(calls) < MaxSends
    /\ LET c == CallAt(pc)
       IN  /\ call' = [frame_ID |-> c.frame_ID, value_1 |-> c.value_1,
                       value_2 |-> c.value_2, ret |-> c.ret, done |-> FALSE,
                       ok |-> FALSE, attempts |-> 0, logged |-> "none"]
           /\ calls' = Append(calls, <<c.frame_ID, c.value_1, c.value_2>>)
    /\ pc' = "send_message"
    /\ UNCHANGED <<feedvars, distvars, toolvars, program, exc, detvars, loopvars, bus, test_index>>

\* the body of send_message, up to its return or to the exception leaving it
SendMessage ==
    /\ pc = "send_message"
    /\ \E ok \in BOOLEAN :
          LET r == send_message(call.frame_ID, call.value_1, call.value_2, ok)
          IN  /\ bus' = bus \o r.sent
              /\ call' = [call EXCEPT !.done = TRUE, !.ok = ok,
                                      !.attempts = r.attempts, !.logged = r.logged]
              /\ exc' = r.raised
              /\ pc' = IF r.raised = "none" THEN call.ret
                       ELSE IF program = "can_toolbox" THEN "raised" ELSE "finally"
    /\ UNCHANGED <<feedvars, distvars, toolvars, program, detvars, loopvars, calls, test_index>>

\* can_toolbox.main: time.sleep(2.0), then the next entry of tests (the
\* "while True" starts the list again)
Sleep ==
    /\ program = "can_toolbox" /\ pc = "c76"
    /\ test_index' = IF test_index = Len(tests) THEN 1 ELSE test_index + 1
    /\ pc' = "c75"
    /\ UNCHANGED <<feedvars, distvars, toolvars, program, exc, detvars, loopvars, bus, calls, call>>

\* ok, buf = cv2.imencode(".jpg", stream_frame, ...); buf.tobytes(): the
\* encoding of the frame with number seq, complete when ok
imencode(img, seq, ok) == [jpeg |-> img, seq |-> seq, complete |-> ok]

\* "if ok: latest_jpeg = buf.tobytes()": the new value of latest_jpeg
StoreAlways(ok, buf, latest) == buf

stream_update(ok, buf, latest) == IF ok THEN buf ELSE latest

\* test.py: "Update Flask stream frame": latest_jpeg is assigned only when
\* cv2.imencode reports success
Stream ==
    /\ program = "test" /\ pc = "stream"
    /\ \E ok \in BOOLEAN :
          LET buf == imencode(annotated, frame_count, ok)
          IN  /\ latest_jpeg' = stream_update(ok, buf, latest_jpeg)
              /\ stored' = IF ok THEN Append(stored, buf) ELSE stored
    /\ pc' = "show"
    /\ UNCHANGED <<gen_pc, emitted, distvars, toolvars, program, exc, detvars, platform,
                   camera, released, exit, frame_count, busvars>>

\* the process of test.py is alive: the Flask thread is a daemon thread
Alive == program = "test" /\ pc \notin {"returned", "raised"}

\* a client opens /video_feed: Flask starts gen() in a thread of its own
FeedRequest ==
    /\ Alive /\ gen_pc = "idle"
    /\ gen_pc' = "g48"
    /\ UNCHANGED <<emitted, stored, distvars, toolvars, program, pc, exc, detvars,
                   loopvars, busvars>>

\* gen(), line 48: "if latest_jpeg is not None"
FeedCheck ==
    /\ Alive /\ gen_pc = "g48"
    /\ gen_pc' = IF latest_jpeg # None THEN "g49" ELSE "g55"
    /\ UNCHANGED <<emitted, stored, distvars, toolvars, program, pc, exc, detvars,
                   loopvars, busvars>>

\* gen(), lines 49-54: the yield, which reads latest_jpeg again
FeedYield ==
    /\ Alive /\ gen_pc = "g49"
    /\ Len(emitted) < MaxEmitted
    /\ emitted' = Append(emitted, latest_jpeg)
    /\ gen_pc' = "g55"
    /\ UNCHANGED <<stored, distvars, toolvars, program, pc, exc, detvars,
                   loopvars, busvars>>

\* gen(), line 55: time.sleep(0.03), then the next round of "while True"
FeedSleep ==
    /\ Alive /\ gen_pc = "g55"
    /\ gen_pc' = "g48"
    /\ UNCHANGED <<emitted, stored, distvars, toolvars, program, pc, exc, detvars,
                   loopvars, busvars>>

\* "if cfg["show_window"]: imshow; if waitKey(1) & 0xFF == ord("q"): break"
Show ==
    /\ program \in {"main", "test"} /\ pc = "show"
    /\ \/ /\ ~get_config(program, platform).show_window
          /\ pc' = "count" /\ UNCHANGED exit
       \/ /\ get_config(program, platform).show_window
          /\ \E key_q \in BOOLEAN :
                IF key_q THEN exit' = "quit_key" /\ pc' = "finally"
                         ELSE exit' = exit /\ pc' = "count"
    /\ UNCHANGED <<feedvars, distvars, toolvars, program, exc, detvars, platform, camera, released,
                   frame_count, latest_jpeg, busvars>>

\* "frame_count += 1" (the debug frame written every 30 frames changes no
\* state of the program)
Count ==
    /\ program \in {"main", "test"} /\ pc = "count"
    /\ frame_count' = frame_count + 1
    /\ pc' = "grab"
    /\ UNCHANGED <<feedvars, distvars, toolvars, program, exc, detvars, platform, camera, released, exit,
                   latest_jpeg, busvars>>

\* CTRL+C: caught by "except KeyboardInterrupt" around the frame loops,
\* not caught in can_toolbox.main
KeyboardInterrupt ==
    \/ /\ program \in {"main", "test"} /\ pc \in TryPcs
       /\ exit' = "KeyboardInterrupt" /\ pc' = "finally"
       /\ UNCHANGED <<feedvars, distvars, toolvars, program, exc, detvars, platform, camera, released,
                      frame_count, latest_jpeg, busvars>>
    \/ /\ program = "can_toolbox" /\ pc \in {"c75", "c76", "send_message"}
       /\ exc' = "KeyboardInterrupt" /\ pc' = "raised"
       /\ UNCHANGED <<feedvars, distvars, toolvars, program, detvars, loopvars, busvars>>

\* "finally:" cap.release() or picam.stop(); an exception that no handler
\* has caught then leaves main()
ReleaseOnlyOnReturn ==
    /\ program \in {"main", "test"} /\ pc = "finally"
    /\ released' = IF exc = "none" THEN released + 1 ELSE released
    /\ camera' = IF exc = "none" THEN "released" ELSE camera
    /\ pc' = IF exc = "none" THEN "returned" ELSE "raised"
    /\ UNCHANGED <<feedvars, distvars, toolvars, program, exc, detvars, platform, exit,
                   frame_count, latest_jpeg, busvars>>

Finally ==
    /\ program \in {"main", "test"} /\ pc = "finally"
    /\ released' = released + 1
    /\ camera' = "released"
    /\ pc' = IF exc = "none" THEN "returned" ELSE "raised"
    /\ UNCHANGED <<feedvars, distvars, toolvars, program, exc, detvars, platform, exit, frame_count,
                   latest_jpeg, busvars>>

NextLoop ==
    \/ OpenCamera \/ Grab \/ Detect \/ Handle
    \/ CallSend \/ SendMessage \/ Sleep
    \/ Stream \/ Show \/ Count
    \/ KeyboardInterrupt \/ Finally
    \/ FeedRequest \/ FeedCheck \/ FeedYield \/ FeedSleep

SpecLoop == InitLoop /\ [][NextLoop]_vars

---------------------------------------------------------------------------
(* Properties of the frame loops and of send_message (SpecLoop)            *)

\* positions of an iteration of a frame loop after the detector returned
AfterDetect == {"handle", "t180", "t181", "send_message", "stream", "show", "count"}

\* positions after the "if info is not None / else" statement
AfterHandle == {"stream", "show", "count"}

\* C1: in the frame loop of test.py a frame with a detection makes the
\* calls send_message(0x100, error_x_rel, error_y_rel) and then
\* send_message(0x101, tilt_rel, distance_m), raises nothing, and the loop
\* goes on.
C1_TwoMessagesPerDetection ==
    (program = "test" /\ info # None) =>
        /\ exc = "none"
        /\ pc \in AfterHandle =>
              /\ Len(calls) = 2
              /\ calls[1] = <<256, info[7], info[8]>>
              /\ calls[2][1] = 257 /\ calls[2][2] = info[9]

\* C2: while a frame loop works on a frame without detection, no step
\* raises an exception or calls send_message, and every step of main()
\* stays in the loop, on its way to the next grab, unless the user ends the
\* program ('q' in the window or CTRL+C).
C2_NoDetectionContinues ==
    [][ (program \in {"main", "test"} /\ pc \in AfterDetect /\ info = None
         /\ pc' # pc) =>
            /\ exc' = "none"
            /\ bus' = bus /\ calls' = calls
            /\ \/ pc' \in AfterHandle \/ pc' = "grab"
               \/ exit' \in {"quit_key", "KeyboardInterrupt"}
            /\ (pc = "count" /\ exit' = "none") => pc' = "grab" ]_vars

\* test.py is back at the grab after two frames, both without detection
\* (a frame with a detection does not get that far, see C1)
C2_Witness ==
    /\ program = "test" /\ pc = "grab"
    /\ frame_count = 2 /\ info = None
    /\ exc = "none" /\ exit = "none" /\ bus = << >>

\* C3: when bus.send fails inside send_message, the failure is logged,
\* there was exactly one attempt, nothing is raised, nothing reaches the
\* bus and the call returns to the loop that made it.
C3_SendFailureContained ==
    [][ (pc = "send_message" /\ call'.done /\ ~call'.ok) =>
            /\ call'.attempts = 1
            /\ call'.logged = "Failed to send message"
            /\ exc' = "none"
            /\ bus' = bus
            /\ pc' = call.ret ]_vars

\* can_toolbox.main makes its second call after the first send failed
C3_Witness ==
    /\ program = "can_toolbox" /\ pc = "send_message"
    /\ Len(calls) = 2 /\ bus = << >>
    /\ ~call.done /\ exc = "none"

\* C19: the video_feed generator yields nothing before main() has stored
\* its first successfully encoded JPEG; every value it yields is one
\* complete value that main() assigned to latest_jpeg; latest_jpeg is
\* always the last value assigned, so an encoding that fails leaves it as
\* it was.
C19_StreamIntegrity ==
    program = "test" =>
        /\ latest_jpeg = IF stored = << >> THEN None ELSE stored[Len(stored)]
        /\ stored = << >> => emitted = << >>
        /\ \A i \in DOMAIN emitted :
              /\ emitted[i] # None
              /\ emitted[i].complete
              /\ \E j \in DOMAIN stored : emitted[i] = stored[j]

\* the encoding of the first frame failed, the generator found latest_jpeg
\* still None, and after the second frame was stored it yielded that one
C19_Witness ==
    /\ program = "test"
    /\ Len(stored) = 1 /\ stored[1].seq = 1
    /\ emitted = <<stored[1]>>
    /\ gen_pc = "g55"

\* the generator passed its test on the first JPEG and yielded the second
C19_WitnessNewer ==
    /\ program = "test"
    /\ Len(stored) = 2
    /\ emitted = <<stored[2]>>

\* main() of main.py or test.py has ended
Ended == program \in {"main", "test"} /\ pc \in {"returned", "raised"}

\* the camera is released at most once, is open during the whole loop and
\* is released once when main() has ended
ReleaseState ==
    program \in {"main", "test"} =>
        /\ released <= 1
        /\ pc \in TryPcs \cup {"finally"} => (camera = "open" /\ released = 0)
        /\ (Ended /\ exit # "no_camera") => (camera = "released" /\ released = 1)
        /\ camera = "released" => Ended

\* once the camera is released no step grabs a frame or releases it again
AfterRelease ==
    (program \in {"main", "test"} /\ camera = "released") =>
        (frame' = frame /\ camera' = camera /\ released' = released)

\* C20: once the camera is initialised, main() ends only after one call
\* of cap.release() / picam.stop(), whichever way the frame loop is left
\* (failed grab, 'q', CTRL+C, an exception in the loop body); the camera
\* is released exactly once and no frame is grabbed after the release.
C20_ReleasedOnce == []ReleaseState /\ [][AfterRelease]_vars

\* test.py has ended with the ValueError of its loop body and the camera
\* was released once
C20_Witness ==
    /\ program = "test" /\ pc = "raised" /\ exc = "ValueError"
    /\ camera = "released" /\ released = 1

\* the other ways out of the loop, each with the camera released once
C20_WitnessGrabFailed ==
    Ended /\ exit = "grab_failed" /\ released = 1 /\ exc = "none"

C20_WitnessQuitKey ==
    Ended /\ exit = "quit_key" /\ released = 1 /\ frame_count = 1

C20_WitnessInterrupt ==
    Ended /\ exit = "KeyboardInterrupt" /\ released = 1 /\ pc = "returned"

C20_WitnessCameraError ==
    Ended /\ program = "main" /\ exc = "RuntimeError" /\ released = 1

---------------------------------------------------------------------------
(* Properties of one detector call (SpecDetect)                            *)

Returned == program = "detect" /\ pc \in {"blue", "white"}

\* the contours the detector that returned has looked at
SeenContours == findContours(frame, pc)

Detected == Returned /\ exc = "none" /\ info # None

Absent == Returned /\ exc = "none" /\ info = None

InfoBox == <<info[1], info[2], info[3], info[4]>>

\* C4 as stated: a detection is produced exactly when a component has a
\* true pixel area (number of foreground pixels) of at least 500.
C4_PixelAreaFloor ==
    (Returned /\ exc = "none") =>
        (info # None <=>
            \E i \in DOMAIN SeenContours : pixelArea(SeenContours[i]) >= MIN_AREA)

\* C4 as amended: a detection is produced exactly when some component has a
\* contour area (cv2.contourArea, the polygon area) of at least 500, and
\* the box returned is then that of such a component.
C4_ContourAreaFloor ==
    (Returned /\ exc = "none") =>
        /\ info # None <=>
              \E i \in DOMAIN SeenContours : contourArea(SeenContours[i]) >= MIN_AREA
        /\ info # None =>
              \E i \in DOMAIN SeenContours :
                  /\ contourArea(SeenContours[i]) >= MIN_AREA
                  /\ boundingRect(SeenContours[i]) = InfoBox

\* a single component whose contour area is exactly the minimum is detected
C4_Witness ==
    /\ Detected
    /\ Len(SeenContours) = 1
    /\ contourArea(SeenContours[1]) = MIN_AREA

\* w/h within [0.3, 3.0]
AspectInRange(w, h) == 10 * w >= 3 * h /\ w <= 3 * h

\* C5: detect_blue_object never selects a component whose bounding-box
\* aspect ratio w/h is outside [0.3, 3.0], and selects an in-range component
\* of area >= 500 whenever there is one.
C5_AspectRejected ==
    (Returned /\ pc = "blue" /\ exc = "none") =>
        /\ info # None => AspectInRange(info[3], info[4])
        /\ (\E i \in DOMAIN SeenContours :
                /\ contourArea(SeenContours[i]) >= MIN_AREA
                /\ AspectInRange(SeenContours[i].w, SeenContours[i].h))
           => info # None

\* the first of the components of greatest area among those of area >= 500
RefSelect(contours) ==
    LET surviving == SelectSeq(contours, LAMBDA c : contourArea(c) >= MIN_AREA)
    IN  IF surviving = << >> THEN None
        ELSE LET first == CHOOSE i \in DOMAIN surviving :
                     /\ \A j \in DOMAIN surviving :
                            contourArea(surviving[j]) <= contourArea(surviving[i])
                     /\ \A j \in 1..(i-1) :
                            contourArea(surviving[j]) < contourArea(surviving[i])
             IN  boundingRect(surviving[first])

\* C6: the detector returns the first component of greatest area among
\* those of area >= 500, and the absent result when there is none: taking
\* the maximum and then testing it equals filtering and then taking the
\* maximum.
C6_MaxAreaFirst ==
    (Returned /\ exc = "none") =>
        IF RefSelect(SeenContours) = None
        THEN info = None
        ELSE info # None /\ InfoBox = RefSelect(SeenContours)

\* two components share the greatest area and the first one is returned
C6_Witness ==
    /\ Detected
    /\ Len(SeenContours) = 2
    /\ contourArea(SeenContours[1]) = contourArea(SeenContours[2])
    /\ InfoBox = boundingRect(SeenContours[1])

\* C7: cx = x + w//2, cy = y + h//2, error_x_rel = (cx - W//2)/(W//2),
\* error_y_rel = (cy - H//2)/(H//2); a box centred at (320, 240) in a
\* 640 x 480 frame has both errors 0.
C7_Centering ==
    Detected =>
        /\ info[5] = info[1] + info[3] \div 2
        /\ info[6] = info[2] + info[4] \div 2
        /\ RatEq(info[7], <<info[5] - frame.W \div 2, frame.W \div 2>>)
        /\ RatEq(info[8], <<info[6] - frame.H \div 2, frame.H \div 2>>)
        /\ (frame.W = 640 /\ frame.H = 480 /\ info[5] = 320 /\ info[6] = 240)
              => (info[7][1] = 0 /\ info[8][1] = 0)

\* a box centred at (320, 240) in a 640 x 480 frame is detected
C7_Witness ==
    /\ Detected
    /\ frame.W = 640 /\ frame.H = 480
    /\ info[5] = 320 /\ info[6] = 240

\* C8: for a bounding box inside the frame both centering errors are
\* within [-1, 1].
C8_ErrorRange ==
    (/\ Detected
     /\ info[1] >= 0 /\ info[2] >= 0 /\ info[3] >= 1 /\ info[4] >= 1
     /\ info[1] + info[3] <= frame.W /\ info[2] + info[4] <= frame.H) =>
        /\ RatLeq(<<-1, 1>>, info[7]) /\ RatLeq(info[7], <<1, 1>>)
        /\ RatLeq(<<-1, 1>>, info[8]) /\ RatLeq(info[8], <<1, 1>>)

\* a box touching the right and bottom edges of an odd-sized frame is detected
C8_Witness ==
    /\ Detected
    /\ frame.W % 2 = 1 /\ frame.H % 2 = 1
    /\ info[1] + info[3] = frame.W /\ info[2] + info[4] = frame.H

\* C9: a detection pass on degenerate input never raises; with W//2 = 0 or
\* H//2 = 0 the corresponding centering error is 0.
C9_DegenerateNeverCrashes ==
    Returned =>
        /\ exc = "none"
        /\ (info # None /\ frame.W \div 2 = 0) => info[7][1] = 0
        /\ (info # None /\ frame.H \div 2 = 0) => info[8][1] = 0

\* C15: a detector call leaves the image it was handed as the camera
\* delivered it.  The absent result returns that image with nothing drawn;
\* a detection returns another image that differs from it by the drawing
\* calls only.
C15_InputNotMutated ==
    Returned =>
        /\ frame.drawn = << >>
        /\ Absent => annotated = frame
        /\ Detected =>
              /\ annotated.drawn # << >>
              /\ [annotated EXCEPT !.drawn = << >>] = frame

\* detect_blue_object returned a detection with the box, the centre, the
\* two guide lines and the text drawn
C15_Witness ==
    /\ Detected /\ pc = "blue"
    /\ Len(annotated.drawn) = 5
    /\ frame.drawn = << >>

\* a detector returned the absent result for a frame that has a component
\* of its colour
C15_WitnessAbsent ==
    /\ Absent
    /\ SeenContours # << >>
    /\ annotated = frame

---------------------------------------------------------------------------
(* Properties of the tilt computation (SpecTilt)                           *)

TiltDone == program = "tilt" /\ pc = "tilt"

\* height of a column: the distance between its lowest and its highest
\* foreground row, 0 for an empty column
RefHeight(column) ==
    IF column = {} THEN 0
    ELSE CHOOSE d \in 0..slice.h :
            \E a, b \in column : b - a = d /\ \A r \in column : a <= r /\ r <= b

\* columns [0, w//4) and [3w//4, w)
RefLeft == { c \in 0..(slice.w - 1) : 4 * (c + 1) <= slice.w }

RefRight == { c \in 0..(slice.w - 1) : 4 * (c + 1) > 3 * slice.w }

RefNonZero(cols) == { c \in cols : RefHeight(slice.submask[c]) # 0 }

\* sum of the heights of the columns cols that are at most k
RECURSIVE RefTotal(_, _)
RefTotal(cols, k) ==
    IF k = 0 THEN 0
    ELSE k * Cardinality({ c \in cols : RefHeight(slice.submask[c]) = k })
         + RefTotal(cols, k - 1)

\* every column of the left quarter is twice as tall as every column of
\* the right quarter
LeftTwiceRight ==
    \E k \in 1..slice.h :
        /\ \A c \in RefLeft : RefHeight(slice.submask[c]) = 2 * k
        /\ \A c \in RefRight : RefHeight(slice.submask[c]) = k

\* C10: for w >= 4, with h_left and h_right the means of the non-zero
\* column heights of the left and right quarter, tilt_rel =
\* (h_left - h_right) / ((h_left + h_right) / 2): 0 for equal means, 2/3
\* for a left side uniformly twice as tall as the right, positive exactly
\* when the left mean is the greater.
C10_TiltReference ==
    (TiltDone /\ slice.w >= 4) =>
        LET L  == RefNonZero(RefLeft)
            R  == RefNonZero(RefRight)
            SL == RefTotal(L, slice.h)
            SR == RefTotal(R, slice.h)
            NL == Cardinality(L)
            NR == Cardinality(R)
            a  == tilt_result.angle_rel
        IN  (L # {} /\ R # {}) =>
                /\ RatEq(tilt_result.h_left, <<SL, NL>>)
                /\ RatEq(tilt_result.h_right, <<SR, NR>>)
                /\ a[2] > 0
                /\ a[1] * (SL * NR + SR * NL) = a[2] * 2 * (SL * NR - SR * NL)
                /\ SL * NR = SR * NL => a[1] = 0
                /\ a[1] > 0 <=> SL * NR > SR * NL
                /\ LeftTwiceRight => RatEq(a, <<2, 3>>)

\* a left quarter uniformly twice as tall as a right quarter of two columns
C10_Witness ==
    /\ TiltDone /\ slice.w >= 4
    /\ LeftTwiceRight
    /\ Cardinality(RefRight) = 2
    /\ RatEq(tilt_result.angle_rel, <<2, 3>>)

\* the columns of the two regions: the quarters for w >= 4, the whole
\* profile otherwise
RefRegionLeft == IF slice.w >= 4 THEN RefLeft ELSE 0..(slice.w - 1)

RefRegionRight == IF slice.w >= 4 THEN RefRight ELSE 0..(slice.w - 1)

\* C11: the tilt calculation divides by nothing that is zero, and yields 0
\* when w < 4 (both regions are the whole profile, so the two means are
\* equal) and when the left or the right region has no column of non-zero
\* height (both means are then reported as 0 as well).
C11_DegenerateTiltZero ==
    TiltDone =>
        /\ tilt_result.h_left[2] > 0
        /\ tilt_result.h_right[2] > 0
        /\ tilt_result.angle_rel[2] > 0
        /\ slice.w < 4 =>
              /\ RatEq(tilt_result.h_left, tilt_result.h_right)
              /\ tilt_result.angle_rel[1] = 0
        /\ (RefNonZero(RefRegionLeft) = {} \/ RefNonZero(RefRegionRight) = {}) =>
              /\ tilt_result.h_left[1] = 0
              /\ tilt_result.h_right[1] = 0
              /\ tilt_result.angle_rel[1] = 0

\* a box three columns wide whose first column is taller than its last
\* and whose middle column is empty: the means are equal and not 0
C11_Witness ==
    /\ TiltDone /\ slice.w = 3
    /\ RefHeight(slice.submask[0]) > RefHeight(slice.submask[2])
    /\ RefHeight(slice.submask[2]) > 0
    /\ slice.submask[1] = {}
    /\ tilt_result.h_left[1] > 0
    /\ tilt_result.angle_rel[1] = 0

\* a box at least four columns wide whose right quarter has no column of
\* non-zero height while its left quarter has one
C11_WitnessEmptyRegion ==
    /\ TiltDone /\ slice.w >= 4
    /\ RefNonZero(RefRight) = {} /\ RefNonZero(RefLeft) # {}
    /\ tilt_result.angle_rel[1] = 0

\* C18: |tilt_rel| < 2 for every box, since the two means are strictly
\* positive whenever their ratio is taken, and for a box of width w >= 1
\* the arrow length int(0.2 * w * |tilt_rel|) is less than 0.4 * w.
C18_TiltBelowTwo ==
    TiltDone =>
        /\ tilt_result.angle_rel[2] > 0
        /\ Abs(tilt_result.angle_rel[1]) < 2 * tilt_result.angle_rel[2]
        /\ tilt_result.angle_rel[1] # 0 =>
              (tilt_result.h_left[1] > 0 /\ tilt_result.h_right[1] > 0)
        /\ tilt_result.arrow_length >= 0
        /\ slice.w >= 1 => 5 * tilt_result.arrow_length < 2 * slice.w

\* a box whose right quarter is three times as tall as its left quarter:
\* tilt_rel = -1 and an arrow of one pixel is drawn
C18_Witness ==
    /\ TiltDone /\ slice.w = 5
    /\ RatEq(tilt_result.angle_rel, <<-1, 1>>)
    /\ tilt_result.arrow_length = 1

---------------------------------------------------------------------------
(* distance_utils.py: the import of the module and estimate_blue_distance  *)

\* H_WHITE_MM = 41.0 and H_BLUE_MM = 50.0
H_WHITE_MM == <<41, 1>>

H_BLUE_MM == <<50, 1>>

\* estimate_blue_distance(h_blue_px) with the globals REF_DIST_M and
\* REF_H_PX as the import left them.  Result: [raised, value].  Arithmetic
\* on a str or on None raises TypeError; a NaN operand gives NaN.
EstimateInverted(h_blue_px) ==
    IF h_blue_px.t = "NoneType" \/ (IsNumber(h_blue_px) /\ h_blue_px.n <= 0)
    THEN [raised |-> "none", value |-> PyNone]
    ELSE IF ~(REF_DIST_M.t \in {"int", "float", "nan"})
            \/ ~(REF_H_PX.t \in {"int", "float", "nan"})
    THEN [raised |-> "TypeError", value |-> PyNone]
    ELSE IF "nan" \in {REF_DIST_M.t, REF_H_PX.t, h_blue_px.t}
    THEN [raised |-> "none", value |-> PyNaN]
    ELSE IF REF_H_PX.n = 0
    THEN [raised |-> "ZeroDivisionError", value |-> PyNone]
    ELSE LET scale_factor == RatDiv(H_BLUE_MM, H_WHITE_MM)
             dist_m == RatMul(RatMul(AsRat(REF_DIST_M), scale_factor),
                              RatDiv(AsRat(h_blue_px), AsRat(REF_H_PX)))
         IN  [raised |-> "none", value |-> PyFloat(dist_m[1], dist_m[2])]

estimate_blue_distance(h_blue_px) ==
    IF h_blue_px.t = "NoneType" \/ (IsNumber(h_blue_px) /\ h_blue_px.n <= 0)
    THEN [raised |-> "none", value |-> PyNone]
    ELSE IF ~(REF_DIST_M.t \in {"int", "float", "nan"})
            \/ ~(REF_H_PX.t \in {"int", "float", "nan"})
    THEN [raised |-> "TypeError", value |-> PyNone]
    ELSE IF "nan" \in {REF_DIST_M.t, REF_H_PX.t, h_blue_px.t}
    THEN [raised |-> "none", value |-> PyNaN]
    ELSE LET scale_factor == RatDiv(H_BLUE_MM, H_WHITE_MM)
             dist_m == RatMul(RatMul(AsRat(REF_DIST_M), scale_factor),
                              RatDiv(AsRat(REF_H_PX), AsRat(h_blue_px)))
         IN  [raised |-> "none", value |-> PyFloat(dist_m[1], dist_m[2])]

\* the values a field of the calibration file is drawn from: zero, a
\* negative and a positive int, a positive float, a string, null and NaN
\* (json.load accepts the literal NaN)
JsonValues ==
    { PyInt(0), PyInt(-3), PyInt(120), PyFloat(3, 20), PyStr, PyNone, PyNaN }

CalibKeys == {"ref_distance_m", "ref_pixel_height"}

CalibFiles ==
    {NoFile, NotJson}
    \cup { JsonFile(d) : d \in UNION { [K -> JsonValues] : K \in SUBSET CalibKeys } }

\* the arguments of estimate_blue_distance: None, the ints -1..MaxHeightPx
\* and the float 0.5
HeightInputs ==
    {PyNone, PyFloat(1, 2)} \cup { PyInt(n) : n \in (-1)..MaxHeightPx }

InitDistance ==
    /\ program = "distance_utils"
    /\ pc = "import"
    /\ calib_file \in CalibFiles
    /\ REF_DIST_M = PyNone /\ REF_H_PX = PyNone
    /\ estimates = << >>
    /\ exc = "none"
    /\ frame = None /\ annotated = None /\ info = None
    /\ IdleTilt
    /\ IdleLoop
    /\ IdleBus
    /\ IdleFeed
    /\ IdleTool

\* the module body, lines 10-20: os.path.exists, json.load and the two
\* subscriptions of calib
Import ==
    /\ program = "distance_utils" /\ pc = "import"
    /\ IF ~calib_file.exists
       THEN exc' = "FileNotFoundError" /\ pc' = "raised"
            /\ UNCHANGED <<REF_DIST_M, REF_H_PX>>
       ELSE IF ~calib_file.parses
       THEN exc' = "JSONDecodeError" /\ pc' = "raised"
            /\ UNCHANGED <<REF_DIST_M, REF_H_PX>>
       ELSE IF "ref_distance_m" \notin DOMAIN calib_file.data
       THEN exc' = "KeyError" /\ pc' = "raised"
            /\ UNCHANGED <<REF_DIST_M, REF_H_PX>>
       ELSE IF "ref_pixel_height" \notin DOMAIN calib_file.data
       THEN exc' = "KeyError" /\ pc' = "raised"
            /\ REF_DIST_M' = calib_file.data["ref_distance_m"]
            /\ UNCHANGED REF_H_PX
       ELSE /\ exc' = exc /\ pc' = "imported"
            /\ REF_DIST_M' = calib_file.data["ref_distance_m"]
            /\ REF_H_PX' = calib_file.data["ref_pixel_height"]
    /\ UNCHANGED <<program, detvars, loopvars, busvars, feedvars, toolvars,
                   calib_file, estimates>>

\* a caller of the imported module estimates a distance
Estimate ==
    /\ program = "distance_utils" /\ pc = "imported"
    /\ Len(estimates) < MaxEstimates
    /\ \E h_blue_px \in HeightInputs :
          LET r == estimate_blue_distance(h_blue_px)
          IN  estimates' = Append(estimates,
                  [h_blue_px |-> h_blue_px, raised |-> r.raised, dist_m |-> r.value])
    /\ UNCHANGED <<program, pc, exc, detvars, loopvars, busvars, feedvars, toolvars,
                   calib_file, REF_DIST_M, REF_H_PX>>

NextDistance == Import \/ Estimate

SpecDistance == InitDistance /\ [][NextDistance]_vars

---------------------------------------------------------------------------
(* Properties of distance_utils (SpecDistance)                             *)

Imported == program = "distance_utils" /\ pc = "imported"

\* h > 0 for an argument of estimate_blue_distance
PositiveHeight(h) == IsNumber(h) /\ h.n > 0

\* C12: with a calibration of two numbers, every call with h > 0 returns
\* REF_DIST_M * (H_BLUE_MM / H_WHITE_MM) * (REF_H_PX / h), so the result
\* for 2h is half of the result for h; every call with h = 0, h < 0 or
\* h = None returns None, whatever the calibration; no call raises.
C12_DistanceFormula ==
    Imported =>
        \A i \in DOMAIN estimates :
            LET h == estimates[i].h_blue_px
                r == estimates[i].dist_m
            IN  /\ ~PositiveHeight(h) =>
                      estimates[i].raised = "none" /\ r = PyNone
                /\ (PositiveHeight(h) /\ IsNumber(REF_DIST_M) /\ IsNumber(REF_H_PX)) =>
                      /\ estimates[i].raised = "none"
                      /\ r.t = "float" /\ r.d > 0
                      /\ r.n * 41 * h.n * REF_DIST_M.d * REF_H_PX.d
                            = r.d * 50 * REF_DIST_M.n * REF_H_PX.n * h.d
                      /\ \A j \in DOMAIN estimates :
                            LET h2 == estimates[j].h_blue_px
                                r2 == estimates[j].dist_m
                            IN  (IsNumber(h2) /\ h2.n * h.d = 2 * h.n * h2.d) =>
                                    2 * r2.n * r.d = r.n * r2.d

\* with the calibration 0.15 m at 120 px, the distance for 2 px and then
\* the distance for 4 px were estimated
C12_Witness ==
    /\ Imported
    /\ REF_DIST_M = PyFloat(3, 20) /\ REF_H_PX = PyInt(120)
    /\ Len(estimates) = 2
    /\ estimates[1].h_blue_px = PyInt(2) /\ estimates[2].h_blue_px = PyInt(4)
    /\ estimates[1].dist_m.n > 0
    /\ 2 * estimates[2].dist_m.n * estimates[1].dist_m.d
          = estimates[1].dist_m.n * estimates[2].dist_m.d

\* the pixel height 0 was handed in and None came back
C12_WitnessZero ==
    /\ Imported
    /\ Len(estimates) = 1
    /\ estimates[1].h_blue_px = PyInt(0)
    /\ estimates[1].dist_m = PyNone

Positive(v) == IsNumber(v) /\ v.n > 0

\* the calibration file holds a JSON object with a positive number
\* ref_distance_m and a positive integer ref_pixel_height
ValidCalibFile ==
    /\ calib_file.exists /\ calib_file.parses
    /\ CalibKeys \subseteq DOMAIN calib_file.data
    /\ Positive(calib_file.data["ref_distance_m"])
    /\ Positive(calib_file.data["ref_pixel_height"])
    /\ calib_file.data["ref_pixel_height"].t = "int"

\* C13: the import of distance_utils raises when the file is missing, when
\* a required field is missing or malformed, and when ref_distance_m or
\* ref_pixel_height is not positive; after a successful import REF_DIST_M
\* and REF_H_PX are both positive.
C13_LoadValidates ==
    (program = "distance_utils" /\ pc # "import") =>
        /\ ~ValidCalibFile => (pc = "raised" /\ exc # "none")
        /\ pc = "imported" => (Positive(REF_DIST_M) /\ Positive(REF_H_PX))

---------------------------------------------------------------------------
(* calibrate_camera.py: main(), the gen_frames() stream thread and the     *)
(* capture() request thread.  Here frame is frame_bgr of gen_frames, info  *)
(* its bbox and annotated its vis.                                         *)

\* find_white_object(frame_bgr): [raised, bbox, vis]; the largest white
\* component is boxed whatever its area
find_white_object(frame_bgr) ==
    IF frame_bgr.W = 0 \/ frame_bgr.H = 0
    THEN [raised |-> "cv2.error", bbox |-> None, vis |-> None]
    ELSE
    LET contours == findContours(frame_bgr, "white")
    IN  IF contours = << >>
        THEN [raised |-> "none", bbox |-> None, vis |-> frame_bgr]
        ELSE LET largest == MaxByArea(contours)
                 rect == boundingRect(largest)
             IN  [raised |-> "none",
                  bbox   |-> rect,
                  vis    |-> [frame_bgr EXCEPT !.drawn = @ \o
                                << <<"rectangle", rect[1], rect[2],
                                     rect[1] + rect[3], rect[2] + rect[4]>>,
                                   <<"putText", rect[1], rect[2] - 10>> >>]]

\* the frames of the Pi camera after the rotation, 1232 x 1640, with at
\* most one component, at the top left
CalibFrames ==
    { Image(1232, 1640, bs) :
        bs \in { << >> } \cup { <<b>> : b \in { c \in CandidateBlobs(1232, 1640) : c.x = 0 } } }

\* float(input(...).strip()) for the texts typed at the prompt: a text
\* that is no number (PyStr stands for the ValueError), "0", "-1", "0.15"
\* and "nan"
PromptInputs == { PyStr, PyFloat(0, 1), PyFloat(-1, 1), PyFloat(3, 20), PyNaN }

\* "if ref_distance_m <= 0": a comparison with NaN is False
NotPositive(v) == IsNumber(v) /\ v.n <= 0

\* a record of an earlier calibration
OldCalibFile ==
    JsonFile([ref_distance_m |-> PyFloat(1, 4), ref_pixel_height |-> PyInt(90),
              model |-> PyStr, note |-> PyStr])

InitCalibrate ==
    /\ program = "calibrate_camera"
    /\ pc = "start"
    /\ calib_file \in {NoFile, OldCalibFile}
    /\ ref_distance_m = PyNone
    /\ latest_h = PyNone
    /\ streamed = 0
    /\ capture_pc = "idle"
    /\ calib_data = None
    /\ page = "none"
    /\ captures = 0
    /\ REF_DIST_M = PyNone /\ REF_H_PX = PyNone /\ estimates = << >>
    /\ frame = None /\ annotated = None /\ info = None
    /\ exc = "none"
    /\ IdleTilt
    /\ IdleLoop
    /\ IdleBus
    /\ IdleFeed

\* main(): "if not PICAM_AVAILABLE: raise RuntimeError"
CheckPicam ==
    /\ program = "calibrate_camera" /\ pc = "start"
    /\ \E PICAM_AVAILABLE \in BOOLEAN :
          IF PICAM_AVAILABLE
          THEN pc' = "prompt" /\ exc' = exc
          ELSE pc' = "raised" /\ exc' = "RuntimeError"
    /\ UNCHANGED <<program, detvars, loopvars, busvars, feedvars, distvars, toolvars>>

\* main(): one round of the "while True" that asks for the distance; the
\* global is assigned before it is tested
Prompt ==
    /\ program = "calibrate_camera" /\ pc = "prompt"
    /\ \E typed \in PromptInputs :
          IF typed = PyStr
          THEN UNCHANGED <<pc, ref_distance_m>>
          ELSE /\ ref_distance_m' = typed
               /\ pc' = IF NotPositive(typed) THEN "prompt" ELSE "init_camera"
    /\ UNCHANGED <<program, exc, detvars, loopvars, busvars, feedvars, distvars,
                   latest_h, streamed, capture_pc, calib_data, page, captures>>

\* main(): picam = Picamera2(); configure; start; then app.run(...,
\* threaded=True)
StartCamera ==
    /\ program = "calibrate_camera" /\ pc = "init_camera"
    /\ camera' = "open"
    /\ pc' = "serve"
    /\ UNCHANGED <<program, exc, detvars, platform, released, exit, frame_count,
                   latest_jpeg, busvars, feedvars, distvars, toolvars>>

\* gen_frames(): one round of its "while True", in the thread of a
\* /video_feed request; its only write to shared state is latest_h
GenFrames ==
    /\ program = "calibrate_camera" /\ pc = "serve"
    /\ streamed < MaxStreamFrames
    /\ \E frame_bgr \in CalibFrames :
          LET r == find_white_object(frame_bgr)
          IN  /\ frame' = frame_bgr
              /\ info' = r.bbox
              /\ annotated' = r.vis
              /\ latest_h' = IF r.bbox # None THEN PyInt(r.bbox[4]) ELSE PyNone
    /\ streamed' = streamed + 1
    /\ UNCHANGED <<program, pc, exc, slice, tilt_result, loopvars, busvars, feedvars,
                   distvars, ref_distance_m, capture_pc, calib_data, page, captures>>

\* capture(), line 180: TRUE when the request ends with the failure page
CaptureIgnoresNone(h) == FALSE

capture_fails(h) == h = PyNone

\* capture(), lines 180-192: the test of latest_h and the failure page
CaptureCheck ==
    /\ program = "calibrate_camera" /\ pc = "serve"
    /\ capture_pc = "idle" /\ captures < MaxCaptures
    /\ captures' = captures + 1
    /\ IF capture_fails(latest_h)
       THEN page' = "Calibration Failed" /\ capture_pc' = "idle"
       ELSE page' = "none" /\ capture_pc' = "c195"
    /\ UNCHANGED <<program, pc, exc, detvars, loopvars, busvars, feedvars, distvars,
                   ref_distance_m, latest_h, streamed, calib_data>>

\* capture(), lines 195-200: calib_data is built from the two globals,
\* read again
CaptureBuild ==
    /\ program = "calibrate_camera" /\ pc = "serve"
    /\ capture_pc = "c195"
    /\ calib_data' = [ref_distance_m |-> ref_distance_m, ref_pixel_height |-> latest_h,
                      model |-> PyStr, note |-> PyStr]
    /\ capture_pc' = "c202"
    /\ UNCHANGED <<program, pc, exc, detvars, loopvars, busvars, feedvars, distvars,
                   ref_distance_m, latest_h, streamed, page, captures>>

\* capture(), lines 202-221: json.dump(calib_data, f) (None is written as
\* null, NaN as NaN) and the confirmation page
CaptureWrite ==
    /\ program = "calibrate_camera" /\ pc = "serve"
    /\ capture_pc = "c202"
    /\ calib_file' = JsonFile(calib_data)
    /\ page' = "Calibration Saved"
    /\ capture_pc' = "idle"
    /\ UNCHANGED <<program, pc, exc, detvars, loopvars, busvars, feedvars,
                   REF_DIST_M, REF_H_PX, estimates,
                   ref_distance_m, latest_h, streamed, calib_data, captures>>

\* main(): app.run ends; "finally: picam.stop()"
StopServer ==
    /\ program = "calibrate_camera" /\ pc = "serve"
    /\ camera' = "released"
    /\ released' = released + 1
    /\ pc' = "returned"
    /\ UNCHANGED <<program, exc, detvars, platform, exit, frame_count, latest_jpeg,
                   busvars, feedvars, distvars, toolvars>>

NextCalibrate ==
    \/ CheckPicam \/ Prompt \/ StartCamera
    \/ GenFrames \/ CaptureCheck \/ CaptureBuild \/ CaptureWrite
    \/ StopServer

SpecCalibrate == InitCalibrate /\ [][NextCalibrate]_vars

---------------------------------------------------------------------------
(* Properties of calibrate_camera (SpecCalibrate)                          *)

\* capture() has written the calibration file during this run
Written == program = "calibrate_camera" /\ captures > 0 /\ calib_file.exists
           /\ calib_file # OldCalibFile

\* the part of C14 about the distance typed at the prompt
C14_DistancePositive == Written => Positive(calib_file.data["ref_distance_m"])

\* the part of C14 about the height set by gen_frames()
C14_HeightPositive ==
    Written =>
        /\ Positive(calib_file.data["ref_pixel_height"])
        /\ calib_file.data["ref_pixel_height"].t = "int"

\* C14: every record capture() writes has a positive ref_distance_m and a
\* positive integer ref_pixel_height, however capture() interleaves with
\* gen_frames().
C14_RecordPositive == C14_DistancePositive /\ C14_HeightPositive

\* the white contours of the frame gen_frames() handled last
WhiteContours == findContours(frame, "white")

\* C16: find_white_object returns a bounding box only for a component of
\* area at least 500, so latest_h is only ever the height of such a
\* component and only such a height is captured.  The area is taken as
\* the number of pixels, which is never less than the contour area.
C16_WhiteAreaFloor ==
    program = "calibrate_camera" =>
        /\ info # None =>
              \E i \in DOMAIN WhiteContours :
                  /\ pixelArea(WhiteContours[i]) >= MIN_AREA
                  /\ boundingRect(WhiteContours[i]) = info
        /\ latest_h # PyNone => info # None
        /\ Written =>
              \/ calib_file.data["ref_pixel_height"] = PyNone
              \/ \E f \in CalibFrames : \E i \in DOMAIN findContours(f, "white") :
                    /\ pixelArea(findContours(f, "white")[i]) >= MIN_AREA
                    /\ findContours(f, "white")[i].h = calib_file.data["ref_pixel_height"].n

\* C17: a capture() that finds latest_h = None at its test returns the
\* "Calibration Failed" page and changes neither the calibration file nor
\* latest_h nor ref_distance_m; it ends there.
C17_CaptureWithoutObject ==
    [][ (program = "calibrate_camera" /\ captures' = captures + 1
         /\ latest_h = PyNone) =>
            /\ page' = "Calibration Failed"
            /\ capture_pc' = "idle"
            /\ calib_file' = calib_file
            /\ latest_h' = latest_h
            /\ ref_distance_m' = ref_distance_m ]_vars

\* capture() has failed before gen_frames() handled any frame
C17_Witness ==
    /\ program = "calibrate_camera" /\ pc = "serve"
    /\ streamed = 0 /\ captures = 1
    /\ page = "Calibration Failed"
    /\ calib_file = NoFile
    /\ latest_h = PyNone

\* capture() has failed after gen_frames() lost the white object
C17_WitnessLost ==
    /\ program = "calibrate_camera" /\ pc = "serve"
    /\ streamed = 2 /\ captures = 2
    /\ page = "Calibration Failed"
    /\ calib_file.exists /\ calib_file # OldCalibFile

====
